---------------------------- MODULE Spec2Model ----------------------------
(***************************************************************************)
(* The annotation ingest servers of TTS_annotation: run_age_server.py,     *)
(* run_adj_server.py (threaded, flock + retry loop), run_emotion_server.py *)
(* (threaded, no lock, no retry), run_intensity_server.py and              *)
(* run_emphasis_server.py (one request at a time, flock + retry loop).     *)
(*                                                                         *)
(* One handler = one POST to the save endpoint.  The file system is the    *)
(* annotations directory and one CSV file per split.  A file handle opened *)
(* in append mode remembers the end of file at open time (what f.tell()    *)
(* returns before the handle's first flush) and buffers the lines written  *)
(* through it until close, which appends them to the file in one write.    *)
(***************************************************************************)
EXTENDS Integers, Sequences, FiniteSets, TLC

\* ------------------------------------------------------------------ bounds
NumHandlers == 2      \* POST requests in one run
NumSplits == 2        \* split values 1..NumSplits (and "no split key")
MaxFaults == 1        \* OS errors raised by the environment in one run

Handlers == 1..NumHandlers
NoSplit == 0 - 1      \* the record carries no "split" key
SplitValues == {NoSplit} \cup (1..NumSplits)

\* ---------------------------------------------------------------- servers
Servers == {"age", "adj", "emotion", "intensity", "emphasis"}

\* (mutant) every server mixes in ThreadingMixIn.
ThreadedAll(s) == TRUE

\* ThreadingMixIn servers handle each connection in its own thread; a plain
\* socketserver.TCPServer handles one request after the other.
Threaded(s) == s \in {"age", "adj", "emotion"}

\* fcntl.flock and the retry loop are in every server but the emotion one.
UsesFlock(s) == s # "emotion"

\* (mutant) one bound of 30 attempts for every locking server.
max_retries_thirty(s) == 30

\* max_retries of the retry loop.
max_retries(s) == IF s \in {"age", "adj"} THEN 50 ELSE 10

\* required_fields, in the order the validation loop visits them.
required_fields(s) ==
    CASE s = "age" ->
           <<"user_id", "audio_url", "selected_age", "timestamp", "session_id">>
      [] s = "emotion" ->
           <<"user_id", "audio_url", "selected_emotion", "timestamp", "session_id">>
      [] s = "emphasis" ->
           <<"user_id", "audio_url", "sentence", "selected_emphasis", "timestamp",
             "session_id">>
      [] OTHER ->
           <<"user_id", "audio_url", "target_emotion", "selected_intensity",
             "timestamp", "session_id">>

\* fieldnames of the csv.DictWriter: the header row.
fieldnames(s) ==
    CASE s = "age" ->
           <<"user_id", "session_id", "Input.audio_url",
             "Answer.perceived_age_group.label", "timestamp">>
      [] s = "emotion" ->
           <<"user_id", "session_id", "Input.audio_url",
             "Answer.perceived_emotion.label", "timestamp">>
      [] s = "emphasis" ->
           <<"user_id", "session_id", "Input.audio_url", "sentence",
             "Answer.perceived_emphasized_word.label", "timestamp">>
      [] OTHER ->
           <<"user_id", "session_id", "Input.audio_url", "target_emotion",
             "Answer.emotion_intensity.label", "timestamp">>

\* (mutant) the row is written in the order of required_fields.
row_keys_as_required(s) == required_fields(s)

\* The record key each column of writer.writerow({...}) is read from.
row_keys(s) ==
    CASE s = "age" ->
           <<"user_id", "session_id", "audio_url", "selected_age", "timestamp">>
      [] s = "emotion" ->
           <<"user_id", "session_id", "audio_url", "selected_emotion", "timestamp">>
      [] s = "emphasis" ->
           <<"user_id", "session_id", "audio_url", "sentence", "selected_emphasis",
             "timestamp">>
      [] OTHER ->
           <<"user_id", "session_id", "audio_url", "target_emotion",
             "selected_intensity", "timestamp">>

Range(q) == {q[i] : i \in 1..Len(q)}
Fields(s) == Range(required_fields(s))

\* ---------------------------------------------------------------- records
Absent == "<absent>"        \* the key is not in the JSON object
Null == "<null>"            \* JSON null
Surrogate == "<surrogate>"  \* a string holding a lone surrogate ("\ud800")

SampleValue(f) ==
    CASE f = "user_id" -> "u1"
      [] f = "session_id" -> "s1"
      [] f = "audio_url" -> "http://x/a.wav"
      [] f = "selected_age" -> "adult"
      [] f = "selected_emotion" -> "happy"
      [] f = "target_emotion" -> "angry"
      [] f = "selected_intensity" -> "3"
      [] f = "sentence" -> "hello world"
      [] f = "selected_emphasis" -> "world"
      [] OTHER -> "2024-01-01T00:00:00Z"

FullRecord(s) == [f \in Fields(s) |-> SampleValue(f)]
\* The other records the handlers are given: one without timestamp, one
\* whose user_id is "" and session_id null, one whose user_id cannot be
\* encoded as UTF-8.
OddRecords(s) ==
    { [FullRecord(s) EXCEPT !["timestamp"] = Absent],
      [FullRecord(s) EXCEPT !["user_id"] = "", !["session_id"] = Null],
      [FullRecord(s) EXCEPT !["user_id"] = Surrogate] }

\* The request bodies: the complete record with every split value, the odd
\* records without a split key, and a body that is not JSON.
NoRequest(s) == [body |-> "none", annotation |-> FullRecord(s), split |-> NoSplit]
Requests(s) ==
    [body : {"object"}, annotation : {FullRecord(s)}, split : SplitValues]
      \cup [body : {"object"}, annotation : OddRecords(s), split : {NoSplit}]
      \cup {[body |-> "malformed", annotation |-> FullRecord(s), split |-> NoSplit]}

\* --------------------------------------------------------- pure functions
\* The validation loop: the first required field that is not a key of the
\* record, Absent's place 0 when there is none.
RECURSIVE FirstMissingFrom(_, _, _)
FirstMissingFrom(s, a, i) ==
    IF i > Len(required_fields(s)) THEN 0
    ELSE IF a[required_fields(s)[i]] = Absent THEN i
    ELSE FirstMissingFrom(s, a, i + 1)

FirstMissing(s, a) == FirstMissingFrom(s, a, 1)

\* (mutant) the field loop is skipped: any JSON object passes.
ValidatesAnyObject(s, r) == r.body = "object"

\* (mutant) "if field not in annotation or not annotation[field]".
ValidatesNonEmpty(s, r) ==
    /\ r.body = "object"
    /\ \A k \in Fields(s) : r.annotation[k] \notin {Absent, "", Null}

\* json.loads succeeded and no "Missing required field" ValueError is raised.
Validates(s, r) == r.body = "object" /\ FirstMissing(s, r.annotation) = 0

\* split_number = annotation.get('split', 1)
split_number(r) == IF r.split = NoSplit THEN 1 ELSE r.split

\* (mutant) every server writes the fixed ..._split1.csv.
csv_file_fixed(s, r) == 1

\* csv_file: the split-numbered file of the age, adjustment and emotion
\* servers, the fixed ..._split1.csv of the intensity and emphasis servers.
csv_file(s, r) ==
    IF s \in {"intensity", "emphasis"} THEN 1 ELSE split_number(r)

Files == 1..NumSplits

\* What the csv writer makes of a value: None is written as the empty cell.
Cell(v) == IF v = Null THEN "" ELSE v

\* writer.writerow raises (KeyError on a missing key, UnicodeEncodeError on
\* a value that UTF-8 cannot encode) instead of buffering the row.
RowRaises(s, a) ==
    \E i \in 1..Len(row_keys(s)) : a[row_keys(s)[i]] \in {Absent, Surrogate}

HeaderLine(s, h) == [kind |-> "header", by |-> h, cells |-> fieldnames(s)]
RowLine(s, h, a) ==
    [kind |-> "row", by |-> h,
     cells |-> [i \in 1..Len(row_keys(s)) |-> Cell(a[row_keys(s)[i]])]]

\* "if not file_exists and f.tell() == 0" (emotion server: "if not file_exists").
NeedHeader(s, fe, pos) ==
    IF UsesFlock(s) THEN (~fe) /\ pos = 0 ELSE ~fe

\* Exceptions, as far as the handler's except block tells them apart: the
\* class and what str(e) is made of.
NoException == [type |-> "none", text |-> "", arg |-> ""]
NoMessage == [text |-> "", arg |-> ""]
SuccessMessage == [text |-> "Annotation saved successfully", arg |-> ""]
JSONDecodeError == [type |-> "JSONDecodeError", text |-> "Expecting value", arg |-> ""]
MissingField(f) == [type |-> "ValueError", text |-> "Missing required field", arg |-> f]
WriterError == [type |-> "UnicodeEncodeError", text |-> "codec can't encode", arg |-> ""]
OSErrorRaised == [type |-> "OSError", text |-> "os error", arg |-> ""]
LockExhausted ==
    [type |-> "Exception", text |-> "Failed to acquire file lock after max_retries attempts",
     arg |-> OSErrorRaised.text]

\* (mutant) no lock is taken: every caller is let through.
FlockNoLock(holders) == "granted"

\* (mutant) LOCK_EX | LOCK_NB: a held lock raises instead of blocking.
FlockNonBlocking(holders) == IF holders = {} THEN "granted" ELSE "raises"

\* fcntl.flock(fd, LOCK_EX): granted when no other open handle holds the
\* lock, and otherwise the caller blocks (it does not raise).
FlockResult(holders) == IF holders = {} THEN "granted" ELSE "blocks"

\* (mutant) the lock outlives the handle: close() does not release it.
ReleasedNever(holders, h) == holders

\* Closing the handle releases the flock it holds.
Released(holders, h) == holders \ {h}

\* (mutant) mkdir() without exist_ok: FileExistsError when the directory exists.
MkdirRaisesIfExists(d) == d

\* annotations_dir.mkdir(exist_ok=True) raises nothing, whether or not the
\* directory exists already.
MkdirRaises(d) == FALSE

\* The backoff base in tenths of a second: 0.2 s in the age and adjustment
\* servers, 0.1 s in the intensity and emphasis servers.
base_delay(s) == IF s \in {"age", "adj"} THEN 2 ELSE 1

\* (mutant) time.sleep(base): the same wait after every failure.
backoff_constant(s, att) == base_delay(s)

\* time.sleep(base * (attempt + 1)), in tenths of a second.
backoff(s, att) == base_delay(s) * (att + 1)

\* (mutant) the file is opened with mode 'w': the flush replaces the content.
FlushedTruncating(content, lines) == lines

\* What close() leaves in the file: opened with mode 'a', the buffered lines
\* are appended to whatever the file holds at that moment.
Flushed(content, lines) == content \o lines


\* ------------------------------------------------------------------ state
VARIABLES
    server,       \* which of the five servers runs
    pc,           \* each handler's place in handle_save_*_annotation
    request,      \* the body each handler was sent
    attempt,      \* the retry loop's "attempt" of each handler
    file_exists,  \* each handler's file_exists of the current attempt
    tell,         \* f.tell() of each handler's handle: the file's end at open
    buf,          \* lines written through each handler's handle, not yet flushed
    exc,          \* the exception leaving each handler's with block
    resp,         \* the HTTP status codes each handler has sent
    dir_exists,   \* the annotations directory exists
    exists,       \* per file: it exists
    content,      \* per file: its lines
    lock,         \* per file: the handlers whose handles hold the flock
    budget,       \* OS errors the environment may still raise
    oserrs,       \* per handler: OS errors its attempts have met
    waits,        \* per handler: the backoff sleeps it has begun, in order
    caught,       \* per handler: e of "except Exception as e", while it is handled
    message       \* per handler: the message field of the response body sent

vars == <<server, pc, request, attempt, file_exists, tell, buf, exc, resp,
          dir_exists, exists, content, lock, budget, oserrs, waits,
          caught, message>>

hvars == <<attempt, file_exists, tell, buf, exc>>
fsvars == <<dir_exists, exists, content, lock>>

Init ==
    /\ server \in Servers
    /\ pc = [h \in Handlers |-> "idle"]
    /\ request = [h \in Handlers |-> NoRequest(server)]
    /\ attempt = [h \in Handlers |-> 0]
    /\ file_exists = [h \in Handlers |-> FALSE]
    /\ tell = [h \in Handlers |-> 0]
    /\ buf = [h \in Handlers |-> <<>>]
    /\ exc = [h \in Handlers |-> "none"]
    /\ resp = [h \in Handlers |-> <<>>]
    /\ dir_exists = FALSE
    /\ exists = [f \in Files |-> FALSE]
    /\ content = [f \in Files |-> <<>>]
    /\ lock = [f \in Files |-> {}]
    /\ budget = 0
    /\ oserrs = [h \in Handlers |-> 0]
    /\ waits = [h \in Handlers |-> <<>>]
    /\ caught = [h \in Handlers |-> NoException]
    /\ message = [h \in Handlers |-> NoMessage]

\* (mutant) a request that ended in an error keeps the server occupied: the
\* serving loop does not survive it.
BusyAfterError(h) == pc[h] \notin {"idle", "done"} \/ resp[h] = <<500>>

\* The split file of handler h's request.
File(h) == csv_file(server, request[h])

\* The handler is between accepting its request and the end of its response.
Busy(h) == pc[h] \notin {"idle", "done"}

\* (mutant) the error response carries a fixed message.
str_generic(e) == [text |-> "Internal server error", arg |-> ""]

\* str(e) of the error response: the exception's own text.
str(e) == [text |-> e.text, arg |-> e.arg]

\* The exception the handler's try block raises for a request that fails
\* json.loads or the required-fields loop.
ValidationError(s, r) ==
    LET i == FirstMissing(s, r.annotation)
    IN IF r.body # "object" THEN JSONDecodeError
       ELSE MissingField(IF i = 0 THEN "" ELSE required_fields(s)[i])

\* (mutant) "except (IOError, OSError): pass": the error is swallowed and
\* the handler goes on to its success response.
AfterOSErrorSwallowed(s, att) == "respond"

\* (mutant) "attempt < max_retries": the last attempt sleeps too and the
\* loop ends without raising.
AfterOSErrorOffByOne(s, att) ==
    IF UsesFlock(s) /\ att < max_retries(s) THEN "sleep" ELSE "except"

\* Where an OSError raised inside the attempt takes the handler: the retry
\* loop's except clause sleeps and retries while attempt < max_retries - 1
\* and raises Exception after the last attempt; the emotion server has no
\* loop and the error reaches the handler's except block at once.
AfterOSError(s, att) ==
    IF UsesFlock(s) /\ att < max_retries(s) - 1 THEN "sleep" ELSE "except"

\* The handler's sleeps once the except clause has run for an OSError of
\* attempt att: one more when it sleeps, none after the last attempt.
WaitsAfterOSError(s, att, w) ==
    IF AfterOSError(s, att) = "sleep" THEN Append(w, backoff(s, att)) ELSE w

\* (mutant) one lock for the whole annotations directory.
LockHoldersAnyFile(f) == UNION {lock[g] : g \in Files}

\* (mutant) "except Exception:" in the loop: every exception is retried.
AfterWithBroadExcept(s, att, e) ==
    IF e = "none" THEN "respond" ELSE AfterOSError(s, att)

\* Where the handler goes when the with block is left with exception e
\* pending: "break" and the response when there is none, the loop's except
\* clause for an OSError, and straight out of the loop to the handler's
\* except block for any other exception.
AfterWith(s, att, e) ==
    CASE e = "none" -> "respond"
      [] e = "os" -> AfterOSError(s, att)
      [] OTHER -> "except"

\* What reaches the handler's except block once the loop's except clause
\* has run for an OSError of attempt att: the Exception raised after the
\* last attempt; in the emotion server, which has no loop, the OSError.
CaughtAfterOSError(s, att, c) ==
    IF AfterOSError(s, att) # "except" THEN c
    ELSE IF UsesFlock(s) THEN LockExhausted ELSE OSErrorRaised

\* The locks that a flock on the handle of file f competes with: those of
\* the same file.
LockHolders(f) == lock[f]

\* ---------------------------------------------------------------- actions
\* do_POST -> handle_save_*_annotation: read and parse the body, validate.
\* Handlers are numbered in the order the server accepts their connections.
HandleSave(h, r) ==
    /\ pc[h] = "idle"
    /\ \A g \in Handlers : g < h => pc[g] # "idle"
    /\ Threaded(server) \/ \A g \in Handlers : ~Busy(g)
    /\ request' = [request EXCEPT ![h] = r]
    /\ pc' = [pc EXCEPT ![h] = IF Validates(server, r) THEN "save" ELSE "except"]
    /\ caught' = [caught EXCEPT ![h] =
                     IF Validates(server, r) THEN @ ELSE ValidationError(server, r)]
    /\ UNCHANGED <<server, hvars, resp, fsvars, budget, oserrs, waits, message>>

\* annotations_dir.mkdir(exist_ok=True)
Mkdir(h) ==
    /\ pc[h] = "save"
    /\ dir_exists' = TRUE
    /\ pc' = [pc EXCEPT ![h] = IF MkdirRaises(dir_exists) THEN "except" ELSE "exists"]
    /\ caught' = [caught EXCEPT ![h] =
                     IF MkdirRaises(dir_exists) THEN OSErrorRaised ELSE @]
    /\ UNCHANGED <<server, request, hvars, resp, exists, content, lock, budget,
                   oserrs, waits, message>>

\* file_exists = csv_file.exists()
CheckExists(h) ==
    /\ pc[h] = "exists"
    /\ file_exists' = [file_exists EXCEPT ![h] = exists[File(h)]]
    /\ pc' = [pc EXCEPT ![h] = "open"]
    /\ UNCHANGED <<server, request, attempt, tell, buf, exc, resp, fsvars, budget,
                   oserrs, waits, caught, message>>

\* open(csv_file, 'a'): creates the file when absent; the handle's position
\* is the end of the file as it is now.
OpenAppend(h) ==
    /\ pc[h] = "open"
    /\ exists' = [exists EXCEPT ![File(h)] = TRUE]
    /\ tell' = [tell EXCEPT ![h] = Len(content[File(h)])]
    /\ buf' = [buf EXCEPT ![h] = <<>>]
    /\ exc' = [exc EXCEPT ![h] = "none"]
    /\ pc' = [pc EXCEPT ![h] = IF UsesFlock(server) THEN "flock" ELSE "locked"]
    /\ UNCHANGED <<server, request, attempt, file_exists, resp, dir_exists, content,
                   lock, budget, oserrs, waits, caught, message>>

\* open raises OSError: nothing is opened or created.
OpenFails(h) ==
    /\ pc[h] = "open"
    /\ budget > 0
    /\ budget' = budget - 1
    /\ oserrs' = [oserrs EXCEPT ![h] = @ + 1]
    /\ pc' = [pc EXCEPT ![h] = AfterOSError(server, attempt[h])]
    /\ waits' = [waits EXCEPT ![h] = WaitsAfterOSError(server, attempt[h], @)]
    /\ file_exists' = [file_exists EXCEPT ![h] = FALSE]
    /\ caught' = [caught EXCEPT ![h] = CaughtAfterOSError(server, attempt[h], @)]
    /\ UNCHANGED <<server, request, attempt, tell, buf, exc, resp, fsvars, message>>

\* fcntl.flock(f.fileno(), fcntl.LOCK_EX)
Flock(h) ==
    /\ pc[h] = "flock"
    /\ FlockResult(LockHolders(File(h))) # "blocks"
    /\ IF FlockResult(LockHolders(File(h))) = "granted"
         THEN /\ lock' = [lock EXCEPT ![File(h)] = @ \cup {h}]
              /\ pc' = [pc EXCEPT ![h] = "locked"]
              /\ UNCHANGED <<exc, oserrs>>
         ELSE /\ exc' = [exc EXCEPT ![h] = "os"]
              /\ oserrs' = [oserrs EXCEPT ![h] = @ + 1]
              /\ pc' = [pc EXCEPT ![h] = "closing"]
              /\ UNCHANGED lock
    /\ UNCHANGED <<server, request, attempt, file_exists, tell, buf, resp, dir_exists,
                   exists, content, budget, waits, caught, message>>

\* flock raises OSError: the with block is left with the file still open.
FlockFails(h) ==
    /\ pc[h] = "flock"
    /\ budget > 0
    /\ budget' = budget - 1
    /\ oserrs' = [oserrs EXCEPT ![h] = @ + 1]
    /\ exc' = [exc EXCEPT ![h] = "os"]
    /\ pc' = [pc EXCEPT ![h] = "closing"]
    /\ UNCHANGED <<server, request, attempt, file_exists, tell, buf, resp, fsvars, waits,
                   caught, message>>

\* The body of the with block: the header check, writer.writeheader() and
\* writer.writerow(...), all into the handle's buffer.
WriteRows(h) ==
    /\ pc[h] = "locked"
    /\ LET hdr == IF NeedHeader(server, file_exists[h], tell[h])
                    THEN <<HeaderLine(server, h)>> ELSE <<>>
       IN IF RowRaises(server, request[h].annotation)
            THEN /\ buf' = [buf EXCEPT ![h] = hdr]
                 /\ exc' = [exc EXCEPT ![h] = "other"]
            ELSE /\ buf' = [buf EXCEPT ![h] =
                               hdr \o <<RowLine(server, h, request[h].annotation)>>]
                 /\ UNCHANGED exc
    /\ pc' = [pc EXCEPT ![h] = "closing"]
    /\ UNCHANGED <<server, request, attempt, file_exists, tell, resp, fsvars, budget,
                   oserrs, waits, caught, message>>

\* Leaving the with block: close() flushes the buffer to the file and
\* releases the lock; then "break", or the pending exception goes on.  The
\* attempt's locals (file_exists, f) are dead from here on and are cleared.
CloseFile(h) ==
    /\ pc[h] = "closing"
    /\ content' = [content EXCEPT ![File(h)] = Flushed(@, buf[h])]
    /\ buf' = [buf EXCEPT ![h] = <<>>]
    /\ lock' = [lock EXCEPT ![File(h)] = Released(@, h)]
    /\ pc' = [pc EXCEPT ![h] = AfterWith(server, attempt[h], exc[h])]
    /\ waits' = [waits EXCEPT ![h] =
                    IF exc[h] = "os" THEN WaitsAfterOSError(server, attempt[h], @)
                    ELSE @]
    /\ file_exists' = [file_exists EXCEPT ![h] = FALSE]
    /\ tell' = [tell EXCEPT ![h] = 0]
    /\ exc' = [exc EXCEPT ![h] = "none"]
    /\ caught' = [caught EXCEPT ![h] =
                     CASE exc[h] = "none" -> @
                       [] exc[h] = "os" -> CaughtAfterOSError(server, attempt[h], @)
                       [] OTHER -> WriterError]
    /\ UNCHANGED <<server, request, attempt, resp, dir_exists, exists, budget, oserrs, message>>

\* close() fails while flushing (disk full, I/O error): some of the buffered
\* lines, possibly all, reached the file; the handle is closed, the lock
\* released, and OSError leaves the with block.
CloseFails(h, n) ==
    /\ pc[h] = "closing"
    /\ buf[h] # <<>>
    /\ n \in 0..Len(buf[h])
    /\ budget > 0
    /\ budget' = budget - 1
    /\ oserrs' = [oserrs EXCEPT ![h] = @ + 1]
    /\ content' = [content EXCEPT ![File(h)] = Flushed(@, SubSeq(buf[h], 1, n))]
    /\ buf' = [buf EXCEPT ![h] = <<>>]
    /\ lock' = [lock EXCEPT ![File(h)] = Released(@, h)]
    /\ pc' = [pc EXCEPT ![h] = AfterOSError(server, attempt[h])]
    /\ waits' = [waits EXCEPT ![h] = WaitsAfterOSError(server, attempt[h], @)]
    /\ file_exists' = [file_exists EXCEPT ![h] = FALSE]
    /\ tell' = [tell EXCEPT ![h] = 0]
    /\ exc' = [exc EXCEPT ![h] = "none"]
    /\ caught' = [caught EXCEPT ![h] = CaughtAfterOSError(server, attempt[h], @)]
    /\ UNCHANGED <<server, request, attempt, resp, dir_exists, exists, message>>

\* time.sleep(base * (attempt + 1)) is over: the loop's next attempt.
Retry(h) ==
    /\ pc[h] = "sleep"
    /\ attempt' = [attempt EXCEPT ![h] = @ + 1]
    /\ pc' = [pc EXCEPT ![h] = "exists"]
    /\ UNCHANGED <<server, request, file_exists, tell, buf, exc, resp, fsvars, budget,
                   oserrs, waits, caught, message>>

\* The success response: send_response(200) ... wfile.write, and the print.
SendSuccess(h) ==
    /\ pc[h] = "respond"
    /\ resp' = [resp EXCEPT ![h] = Append(@, 200)]
    /\ pc' = [pc EXCEPT ![h] = "done"]
    /\ message' = [message EXCEPT ![h] = SuccessMessage]
    /\ UNCHANGED <<server, request, hvars, fsvars, budget, oserrs, waits, caught>>

\* except Exception: print, then the 500 response.
SendError(h) ==
    /\ pc[h] = "except"
    /\ resp' = [resp EXCEPT ![h] = Append(@, 500)]
    /\ pc' = [pc EXCEPT ![h] = "done"]
    /\ message' = [message EXCEPT ![h] = str(caught[h])]
    /\ caught' = [caught EXCEPT ![h] = NoException]
    /\ UNCHANGED <<server, request, hvars, fsvars, budget, oserrs, waits>>

\* do_GET: a split file is served by open(file_path, 'r') and f.read(), or
\* 404 is sent; the non-threaded servers serve it by the inherited handler
\* between two requests.  Nothing of the server's state changes.
DoGet(f) ==
    /\ Threaded(server) \/ \A g \in Handlers : ~Busy(g)
    /\ f \in Files
    /\ UNCHANGED vars

\* do_OPTIONS: the CORS preflight answer, 200 with headers only.
DoOptions ==
    /\ Threaded(server) \/ \A g \in Handlers : ~Busy(g)
    /\ UNCHANGED vars

\* A step of a handler in an environment whose file operations succeed.
Next ==
    \/ \E f \in Files : DoGet(f)
    \/ DoOptions
    \/ \E h \in Handlers :
        \/ \E r \in Requests(server) : HandleSave(h, r)
        \/ Mkdir(h)
        \/ CheckExists(h)
        \/ OpenAppend(h)
        \/ Flock(h)
        \/ WriteRows(h)
        \/ CloseFile(h)
        \/ SendSuccess(h)
        \/ SendError(h)

Spec == Init /\ [][Next]_vars

\* The same handlers where open, flock and close may fail with an OSError,
\* at most MaxFaults times in a run.  Failures are explored with the first
\* two handlers; the others take no part.
FaultScope == {h \in Handlers : h <= 2}

InitFault ==
    /\ server \in Servers
    /\ pc = [h \in Handlers |-> IF h \in FaultScope THEN "idle" ELSE "done"]
    /\ request = [h \in Handlers |-> NoRequest(server)]
    /\ attempt = [h \in Handlers |-> 0]
    /\ file_exists = [h \in Handlers |-> FALSE]
    /\ tell = [h \in Handlers |-> 0]
    /\ buf = [h \in Handlers |-> <<>>]
    /\ exc = [h \in Handlers |-> "none"]
    /\ resp = [h \in Handlers |-> <<>>]
    /\ dir_exists = FALSE
    /\ exists = [f \in Files |-> FALSE]
    /\ content = [f \in Files |-> <<>>]
    /\ lock = [f \in Files |-> {}]
    /\ budget = MaxFaults
    /\ oserrs = [h \in Handlers |-> 0]
    /\ waits = [h \in Handlers |-> <<>>]
    /\ caught = [h \in Handlers |-> NoException]
    /\ message = [h \in Handlers |-> NoMessage]

NextFault ==
    \/ Next
    \/ \E h \in Handlers :
        \/ OpenFails(h)
        \/ FlockFails(h)
        \/ \E n \in 0..2 : CloseFails(h, n)
        \/ Retry(h)

SpecFault == InitFault /\ [][NextFault]_vars

\* A step of handler h's own thread once its request is accepted: whatever
\* it does next when the call it is in returns normally.
HandlerStep(h) ==
    \/ Mkdir(h)
    \/ CheckExists(h)
    \/ OpenAppend(h)
    \/ Flock(h)
    \/ WriteRows(h)
    \/ CloseFile(h)
    \/ Retry(h)
    \/ SendSuccess(h)
    \/ SendError(h)

\* The handlers with failing file operations, under fair scheduling: a
\* thread that can take a step (it is not waiting in flock for a lock that
\* is held) is not left waiting for ever.  Nothing is assumed about the
\* arrival of requests or about the failures.
SpecLive ==
    InitFault /\ [][NextFault]_vars /\ \A h \in Handlers : WF_vars(HandlerStep(h))

\* The retry loop run to its end: a locking server whose environment may
\* fail every attempt of a submission.  The threaded servers are explored
\* with one handler; the non-threaded ones, whose loop is shorter, with a
\* second submission after the first.
RetryScope == {h \in Handlers : h = 1 \/ (h = 2 /\ ~Threaded(server))}

InitRetry ==
    /\ server \in {s \in Servers : UsesFlock(s)}
    /\ pc = [h \in Handlers |-> IF h \in RetryScope THEN "idle" ELSE "done"]
    /\ request = [h \in Handlers |-> NoRequest(server)]
    /\ attempt = [h \in Handlers |-> 0]
    /\ file_exists = [h \in Handlers |-> FALSE]
    /\ tell = [h \in Handlers |-> 0]
    /\ buf = [h \in Handlers |-> <<>>]
    /\ exc = [h \in Handlers |-> "none"]
    /\ resp = [h \in Handlers |-> <<>>]
    /\ dir_exists = FALSE
    /\ exists = [f \in Files |-> FALSE]
    /\ content = [f \in Files |-> <<>>]
    /\ lock = [f \in Files |-> {}]
    /\ budget = max_retries(server)
    /\ oserrs = [h \in Handlers |-> 0]
    /\ waits = [h \in Handlers |-> <<>>]
    /\ caught = [h \in Handlers |-> NoException]
    /\ message = [h \in Handlers |-> NoMessage]

SpecRetry == InitRetry /\ [][NextFault]_vars


\* ----------------------------------------------------------------- claims
LockingThreaded == server \in {"age", "adj"}
Accepted == {h \in Handlers : request[h].body # "none"}
AllDone == \A h \in Handlers : pc[h] = "done"

LinesOf(f, k) == {i \in 1..Len(content[f]) : content[f][i].kind = k}
HeaderCount(f) == Cardinality(LinesOf(f, "header"))
RowsBy(h, f) == Cardinality({i \in LinesOf(f, "row") : content[f][i].by = h})

\* The record has every required key and every value can be written.
AllPresent(h) ==
    /\ request[h].body = "object"
    /\ \A k \in Fields(server) : request[h].annotation[k] # Absent
Writable(h) ==
    AllPresent(h) /\ \A k \in Fields(server) : request[h].annotation[k] # Surrogate

\* The handler's append has completed: it left the with block by "break".
Saved(h) == Writable(h) /\ pc[h] \in {"respond", "done"} /\ oserrs[h] = 0

\* C1: in the age and adjustment servers, whatever the interleaving of the
\* handler threads, every submission of a valid record has exactly one data
\* row in its split file once its append has completed, none before, none in
\* another file, and the row is the submitted record's: N completed
\* submissions (identical records included) are N data rows.
C1_OneRowPerSubmission ==
    LockingThreaded =>
      \A h \in Handlers : \A f \in Files :
        /\ RowsBy(h, f) = IF Saved(h) /\ f = File(h) THEN 1 ELSE 0
        /\ \A i \in LinesOf(f, "row") :
             content[f][i].by = h =>
               content[f][i] = RowLine(server, h, request[h].annotation)

\* N = NumHandlers identical valid records, same split, all completed.
C1_Witness ==
    /\ server = "age"
    /\ AllDone
    /\ \A h \in Handlers :
         /\ request[h] = [body |-> "object", annotation |-> FullRecord(server),
                          split |-> 1]
         /\ RowsBy(h, 1) = 1
    /\ Cardinality(LinesOf(1, "row")) = NumHandlers

\* C2: in the locking servers the header row is never duplicated, also when
\* writers race to create the same split file: no file holds two headers.
C2_HeaderNeverDuplicated ==
    LockingThreaded => \A f \in Files : HeaderCount(f) <= 1

\* C3: in the locking servers a non-empty split file starts with the header
\* row, so every data row comes after the header.
C3_HeaderFirst ==
    LockingThreaded =>
      \A f \in Files : content[f] # <<>> => content[f][1].kind = "header"

\* C4: in the emotion server, once N valid submissions to a split have all
\* been processed, its file is one header row followed by N data rows.
C4_EmotionOneHeaderThenRows ==
    (server = "emotion" /\ AllDone /\ \A h \in Handlers : Writable(h)) =>
      \A f \in Files :
        LET n == Cardinality({h \in Handlers : File(h) = f})
        IN IF n = 0 THEN content[f] = <<>>
           ELSE /\ Len(content[f]) = n + 1
                /\ content[f][1].kind = "header"
                /\ \A i \in 2..(n + 1) : content[f][i].kind = "row"

\* C5: writers of one split file are serialized by the exclusive lock: at
\* most one handler is between its flock and the close of its handle for a
\* given file, and it is the lock's only holder.
InLockedSection(h, f) ==
    UsesFlock(server) /\ File(h) = f /\ pc[h] \in {"locked", "closing"}

C5_MutualExclusion ==
    \A f \in Files : \A h \in Handlers : \A g \in Handlers :
        /\ (InLockedSection(h, f) /\ InLockedSection(g, f)) => h = g
        /\ InLockedSection(h, f) => lock[f] = {h}

\* One writer has buffered its rows under the lock while another, whose
\* handle on the same file is open, waits in flock.
C5_Witness ==
    \E h \in Handlers : \E g \in Handlers :
        /\ h # g
        /\ File(h) = File(g)
        /\ pc[h] = "closing" /\ buf[h] # <<>> /\ lock[File(h)] = {h}
        /\ pc[g] = "flock"

\* C6: a record missing a required field is rejected with an error response
\* and touches nothing: its handler goes from validation to the except block,
\* opens, locks and writes no file whatever the other handlers do, and when
\* no accepted record passed validation there is no directory and no file.
MissingRequired(h) ==
    /\ request[h].body = "object"
    /\ \E k \in Fields(server) : request[h].annotation[k] = Absent

C6_RejectedTouchesNothing ==
    /\ \A h \in Handlers :
         MissingRequired(h) =>
           /\ pc[h] \in {"except", "done"}
           /\ resp[h] = IF pc[h] = "done" THEN <<500>> ELSE <<>>
           /\ buf[h] = <<>>
           /\ \A f \in Files :
                /\ h \notin lock[f]
                /\ \A i \in 1..Len(content[f]) : content[f][i].by # h
    /\ (\A h \in Accepted : ~AllPresent(h)) =>
         /\ ~dir_exists
         /\ \A f \in Files : ~exists[f] /\ content[f] = <<>>

\* A record without timestamp has got its 500 while another handler is in
\* the middle of its append; the file holds nothing of the rejected one.
C6_Witness ==
    \E h \in Handlers : \E g \in Handlers :
        /\ MissingRequired(h) /\ pc[h] = "done" /\ resp[h] = <<500>>
        /\ pc[g] = "closing" /\ buf[g] # <<>>
        /\ exists[File(g)]

\* C7 (as stated): a record in which a required field is present but empty
\* or null is rejected and appends no row.
HasEmptyField(h) ==
    /\ AllPresent(h)
    /\ \E k \in Fields(server) : request[h].annotation[k] \in {"", Null}

C7_EmptyFieldRejected ==
    \A h \in Handlers :
        HasEmptyField(h) =>
          /\ resp[h] # <<200>>
          /\ \A f \in Files : RowsBy(h, f) = 0

\* C7 (amended): validation looks at the presence of the keys only.  A
\* submission whose values can be written ends with 200 and its row exactly
\* when every required key is present; a value that is empty or null is
\* accepted and written as an empty cell.
C7_AcceptedIffAllPresent ==
    \A h \in Handlers :
        (pc[h] = "done" /\ request[h].body = "object"
           /\ \A k \in Fields(server) : request[h].annotation[k] # Surrogate) =>
          /\ resp[h] = IF AllPresent(h) THEN <<200>> ELSE <<500>>
          /\ RowsBy(h, File(h)) = IF AllPresent(h) THEN 1 ELSE 0

\* The record with user_id "" and session_id null got 200 and its row, whose
\* first two cells are empty.
C7_Witness ==
    \E h \in Handlers :
        /\ HasEmptyField(h) /\ pc[h] = "done" /\ resp[h] = <<200>>
        /\ \E i \in LinesOf(File(h), "row") :
             /\ content[File(h)][i].by = h
             /\ content[File(h)][i].cells[1] = ""
             /\ content[File(h)][i].cells[2] = ""

\* C8 (as stated): in every server the record's split value selects the
\* file (no split: the split-1 file), so nothing of a submission is ever in
\* the file of another split value.
SplitOf(h) == IF request[h].split = NoSplit THEN 1 ELSE request[h].split
WroteTo(h, f) == \E i \in 1..Len(content[f]) : content[f][i].by = h

C8_SplitSelectsFile ==
    \A h \in Handlers : \A f \in Files : WroteTo(h, f) => f = SplitOf(h)

\* C8 (amended): that holds of the age, emotion and adjustment servers; the
\* intensity and emphasis servers ignore split and write every record to
\* their one split-1 file.
C8_SplitSelectsFileWhereUsed ==
    \A h \in Handlers : \A f \in Files :
        WroteTo(h, f) =>
          f = IF server \in {"age", "adj", "emotion"} THEN SplitOf(h) ELSE 1

\* Age server: a record with split 2 is in file 2, one without split in file 1.
C8_Witness ==
    /\ server = "age"
    /\ \E h \in Handlers : \E g \in Handlers :
         /\ request[h].split = 2 /\ RowsBy(h, 2) = 1 /\ RowsBy(h, 1) = 0
         /\ request[g].split = NoSplit /\ request[g].body = "object"
         /\ RowsBy(g, 1) = 1 /\ RowsBy(g, 2) = 0

\* C9: in the locking servers, while no OS error occurs, no submission ever
\* uses a retry: waiting for the lock raises nothing, so attempt stays 0, no
\* handler sleeps in backoff, none reaches the except block by lock
\* exhaustion, and every finished submission of a writable record has its
\* 200 and its row.
C9_NoRetryUnderContention ==
    UsesFlock(server) =>
      \A h \in Handlers :
        /\ oserrs[h] = 0 /\ attempt[h] = 0 /\ pc[h] # "sleep"
        /\ pc[h] = "except" => ~Writable(h)
        /\ (pc[h] = "done" /\ Writable(h)) =>
             resp[h] = <<200>> /\ RowsBy(h, File(h)) = 1

\* N = NumHandlers submissions to the same split of the adjustment server
\* have all succeeded at their first attempt.
C9_Witness ==
    /\ server = "adj"
    /\ \A h \in Handlers :
         /\ Writable(h) /\ File(h) = 1 /\ pc[h] = "done"
         /\ resp[h] = <<200>> /\ attempt[h] = 0
    /\ Cardinality(LinesOf(1, "row")) = NumHandlers

\* C10: every POST gets exactly one response, sent as the handler's last
\* step: 200 only for a record that passed validation and whose append
\* completed (its row is in the file), 500 for a validation failure or a
\* persistence failure, and never a 500 after a 200.
C10_ExactlyOneResponse ==
    \A h \in Accepted :
        /\ resp[h] = <<>> <=> pc[h] # "done"
        /\ resp[h] \in {<<>>, <<200>>, <<500>>}
        /\ resp[h] = <<200>> => Writable(h) /\ RowsBy(h, File(h)) >= 1
        /\ resp[h] = <<500>> =>
             \/ ~Writable(h)
             \/ oserrs[h] > 0
                  /\ (~UsesFlock(server) \/ oserrs[h] >= max_retries(server))

\* One submission met an OS error, was retried and got its single 200;
\* another was rejected with its single 500.
C10_Witness ==
    \E h \in Handlers : \E g \in Handlers :
        /\ oserrs[h] = 1 /\ attempt[h] = 1 /\ resp[h] = <<200>>
        /\ MissingRequired(g) /\ resp[g] = <<500>>

\* C11: the retry loop is bounded.  A submission never makes more than
\* max_retries attempts; each attempt before the current one failed with an
\* OS error, so no attempt follows a successful one; a handler sleeps only
\* after a failure that is not the last; and a writable submission ends in
\* the persistence error exactly when max_retries attempts have failed.
C11_RetryBounded ==
    \A h \in Accepted :
        /\ attempt[h] < max_retries(server)
        /\ attempt[h] <= oserrs[h] /\ oserrs[h] <= attempt[h] + 1
        /\ pc[h] = "respond" \/ resp[h] = <<200>> => oserrs[h] = attempt[h]
        /\ pc[h] = "sleep" =>
             oserrs[h] = attempt[h] + 1 /\ attempt[h] < max_retries(server) - 1
        /\ Writable(h) =>
             (pc[h] = "except" \/ resp[h] = <<500>>
                <=> oserrs[h] = max_retries(server) /\ pc[h] # "closing")

\* A writable submission to the age server failed all 50 attempts and got
\* the 500 response; nothing of it is in the file.
C11_Witness ==
    \E h \in Handlers :
        /\ server = "age" /\ Writable(h)
        /\ oserrs[h] = max_retries(server) /\ attempt[h] = max_retries(server) - 1
        /\ resp[h] = <<500>>
        /\ RowsBy(h, File(h)) = 0

\* C12 (as claimed): in every locking server the maximum number of attempts
\* of a submission is between 30 and 50: a writable submission gives up only
\* after 30 to 50 failed attempts.
C12_MaxAttemptsBetween30And50 ==
    \A h \in Accepted :
        Writable(h) /\ pc[h] = "except" => attempt[h] + 1 \in 30..50

\* C12 (amended): the maximum number of attempts of a submission is 50 in
\* the age and adjustment servers and 10 in the intensity and emphasis
\* servers: no submission makes more, and a writable one gives up after
\* exactly that many failures.
C12_MaxAttemptsPerVariant ==
    LET limit == IF server \in {"age", "adj"} THEN 50 ELSE 10
    IN \A h \in Accepted :
           /\ attempt[h] + 1 <= limit
           /\ Writable(h) /\ pc[h] = "except" =>
                attempt[h] + 1 = limit /\ oserrs[h] = limit

\* An intensity submission gave up after its tenth failed attempt.
C12_Witness ==
    \E h \in Handlers :
        /\ server = "intensity" /\ Writable(h)
        /\ attempt[h] = 9 /\ oserrs[h] = 10
        /\ pc[h] = "done" /\ resp[h] = <<500>>

HasOpenHandle(h) == pc[h] \in {"flock", "locked", "closing"}

\* C14: the lock is scoped to one append attempt and released on every exit
\* path.  A handler that is not between its open and the end of its with
\* block (it is parsing or validating, before its open, sleeping in
\* backoff, sending its response or finished, whatever the outcome of its
\* attempts) holds no lock and has no handle with pending data on any file.
C14_LockScopedToAttempt ==
    \A h \in Handlers :
        /\ ~HasOpenHandle(h) =>
             /\ \A f \in Files : h \notin lock[f]
             /\ buf[h] = <<>>
        /\ \A f \in Files : h \in lock[f] => f = File(h) /\ pc[h] \in {"locked", "closing"}

\* Every exit path has been taken with the lock free afterwards: one
\* handler sleeps in backoff after its close failed under the lock,
\* another has finished with the 500 of a record that cannot be written,
\* and the lock of their common file is free.
C14_Witness ==
    \E h \in Handlers : \E g \in Handlers :
        /\ UsesFlock(server) /\ File(h) = File(g)
        /\ pc[h] = "sleep" /\ oserrs[h] = 1 /\ WroteTo(h, File(h))
        /\ AllPresent(g) /\ ~Writable(g) /\ resp[g] = <<500>>
        /\ lock[File(h)] = {}

\* C15: writers to different split files do not contend.  A handler waiting
\* at flock is granted the lock unless another handler is inside the locked
\* section of the same file; handlers in the locked sections of other
\* files never make it wait.
C15_NoContentionAcrossFiles ==
    \A h \in Handlers :
        pc[h] = "flock" /\ UsesFlock(server)
          /\ (\A g \in Handlers \ {h} : ~InLockedSection(g, File(h)))
        => FlockResult(LockHolders(File(h))) = "granted"

\* Two age handlers are inside their locked sections at the same time, one
\* on age_split1.csv and one on age_split2.csv, each with its row buffered.
C15_Witness ==
    \E h \in Handlers : \E g \in Handlers :
        /\ server = "age"
        /\ File(h) = 1 /\ File(g) = 2
        /\ InLockedSection(h, 1) /\ InLockedSection(g, 2)
        /\ pc[h] = "closing" /\ pc[g] = "closing"
        /\ lock[1] = {h} /\ lock[2] = {g}

\* C16: validation errors and persistence errors never stop the service.
\* Whatever the earlier submissions ended in, the server accepts the next
\* POST once it is free to; a handler at flock whose predecessors have all
\* finished is granted the lock; and a later valid submission whose own
\* attempts meet no error ends with 200 and its row in the file.
C16_ErrorsDoNotStopService ==
    \A g \in Handlers :
        /\ pc[g] = "idle" /\ (\A h \in Handlers \ {g} : pc[h] = "done")
             => ENABLED (\E r \in Requests(server) : HandleSave(g, r))
        /\ pc[g] = "flock" /\ (\A h \in Handlers \ {g} : pc[h] = "done")
             => FlockResult(LockHolders(File(g))) = "granted"
        /\ pc[g] = "done" /\ Writable(g) /\ oserrs[g] = 0 =>
             resp[g] = <<200>> /\ RowsBy(g, File(g)) = 1

\* The intensity server: the first submission failed all ten attempts and
\* got 500; the next one, valid, was accepted and appended its row.
C16_Witness ==
    /\ server = "intensity"
    /\ Writable(1) /\ oserrs[1] = max_retries(server) /\ resp[1] = <<500>>
    /\ Writable(2) /\ resp[2] = <<200>> /\ RowsBy(2, File(2)) = 1

\* A submission has succeeded: its append completed and it is answering or
\* has answered 200.
Succeeded(h) == pc[h] = "respond" \/ resp[h] = <<200>>

\* C17 (as claimed): a split file exists only if a submission for it has
\* succeeded; read with the benefit of the doubt for submissions still
\* under way: once every submission for a file has finished and none has
\* succeeded, the file does not exist.
C17_FileOnlyAfterSuccess ==
    \A f \in Files :
        exists[f] =>
            \E h \in Accepted : File(h) = f /\ (Succeeded(h) \/ pc[h] # "done")

\* C17 (amended): a split file exists only if a submission for it passed
\* validation and began its append; a submission that is rejected creates
\* nothing; and after a successful submission its file exists.
C17_FileOnlyAfterValidatedOpen ==
    /\ \A f \in Files :
           exists[f] =>
               /\ dir_exists
               /\ \E h \in Accepted :
                      /\ AllPresent(h) /\ File(h) = f
                      /\ pc[h] # "save"
                      /\ pc[h] \in {"exists", "open"} => attempt[h] > 0
    /\ \A h \in Accepted : Succeeded(h) => exists[File(h)]

\* An emotion submission with a writable record failed at close and got
\* 500; the file its open created is left behind, and no submission has
\* succeeded.
C17_Witness ==
    \E h \in Handlers :
        /\ server = "emotion" /\ Writable(h) /\ oserrs[h] = 1
        /\ pc[h] = "done" /\ resp[h] = <<500>>
        /\ exists[File(h)]
        /\ \A g \in Accepted : ~Succeeded(g)

\* Sequence a is an initial part of sequence b.
IsPrefix(a, b) == Len(a) <= Len(b) /\ SubSeq(b, 1, Len(a)) = a

\* C18: split files are append-only.  In every step (of a POST, whether its
\* attempt succeeds, fails or is retried, of a GET or of an OPTIONS) the
\* content of each file before the step is an initial part of its content
\* after it, a file that exists goes on existing, and a file that appears
\* is the one split file of a handler that is opening it.
C18_AppendOnly ==
    [][ /\ \A f \in Files :
              /\ IsPrefix(content[f], content'[f])
              /\ exists[f] => exists'[f]
              /\ ~exists[f] /\ exists'[f] =>
                   \E h \in Handlers : pc[h] = "open" /\ File(h) = f /\ pc'[h] # "open"
        /\ Cardinality({f \in Files : ~exists[f] /\ exists'[f]}) <= 1
        /\ dir_exists => dir_exists'
      ]_vars

\* A file that already held another submission's lines has grown by a
\* partial flush of a failed attempt and then by the retried attempt's row.
C18_Witness ==
    \E h \in Handlers : \E g \in Handlers :
        /\ h # g /\ File(h) = File(g)
        /\ oserrs[h] = 1 /\ attempt[h] = 1 /\ resp[h] = <<200>>
        /\ resp[g] = <<200>>
        /\ Len(content[File(h)]) >= 4

\* Handler h is the only one whose accepted record is for file f.
OnlyWriterOf(h, f) ==
    /\ File(h) = f
    /\ \A g \in Handlers \ {h} : pc[g] = "idle" \/ ~AllPresent(g) \/ File(g) # f

\* C19: in the age server, a valid record without a split value, submitted
\* when age_split1.csv does not exist and finished with nobody else writing
\* to that file, has made the file exactly two lines: the header
\* user_id,session_id,Input.audio_url,Answer.perceived_age_group.label,timestamp
\* and one row holding, in this order, the record's user_id, session_id,
\* audio_url, selected_age and timestamp as they were sent (a null as the
\* empty cell).
C19_AgeFirstRow ==
    \A h \in Accepted :
        LET a == request[h].annotation
            sent(k) == IF a[k] = Null THEN "" ELSE a[k]
        IN server = "age" /\ request[h].split = NoSplit /\ Writable(h)
             /\ OnlyWriterOf(h, 1) /\ pc[h] = "done"
           => /\ resp[h] = <<200>>
              /\ exists[1]
              /\ Len(content[1]) = 2
              /\ content[1][1].kind = "header"
              /\ content[1][1].cells =
                   <<"user_id", "session_id", "Input.audio_url",
                     "Answer.perceived_age_group.label", "timestamp">>
              /\ content[1][2].kind = "row"
              /\ content[1][2].cells =
                   <<sent("user_id"), sent("session_id"), sent("audio_url"),
                     sent("selected_age"), sent("timestamp")>>

\* The full age record sent without a split key is in age_split1.csv under
\* the header, its five values in column order, while the other submission
\* went to age_split2.csv.
C19_Witness ==
    \E h \in Handlers : \E g \in Handlers :
        /\ server = "age" /\ request[h].split = NoSplit
        /\ request[h].annotation = FullRecord("age")
        /\ resp[h] = <<200>> /\ resp[g] = <<200>> /\ File(g) = 2
        /\ Len(content[1]) = 2
        /\ content[1][2].cells =
             <<"u1", "s1", "http://x/a.wav", "adult", "2024-01-01T00:00:00Z">>

\* C20: directory creation is idempotent.  Every step in which a handler
\* runs annotations_dir.mkdir takes it on to its existence check with the
\* directory in place, whether the directory was absent, had been created
\* by an earlier submission, or is created by another handler in between.
C20_MkdirIdempotent ==
    [][ \A h \in Handlers :
            pc[h] = "save" /\ pc'[h] # "save" =>
                pc'[h] = "exists" /\ dir_exists' /\ resp'[h] = <<>>
      ]_vars

\* Two handler threads of the emotion server have both run mkdir before
\* either went on: the second found the directory the first had made.
C20_Witness ==
    \E h \in Handlers : \E g \in Handlers :
        /\ h # g /\ server = "emotion"
        /\ pc[h] = "exists" /\ pc[g] = "exists"
        /\ attempt[h] = 0 /\ attempt[g] = 0
        /\ dir_exists

\* C21: the intensity and emphasis servers handle one request at a time.
\* At most one handler is between accepting its request and the end of its
\* response, a later submission has not started while an earlier one is
\* unfinished (appending, sleeping in backoff or answering), and so no two
\* handlers are ever both between their existence check and their close.
C21_OneRequestAtATime ==
    server \in {"intensity", "emphasis"} =>
        /\ Cardinality({h \in Handlers : pc[h] \notin {"idle", "done"}}) <= 1
        /\ \A h \in Handlers : \A g \in Accepted :
               h < g /\ pc[g] # "idle" => pc[h] = "done" /\ Len(resp[h]) = 1
        /\ \A h \in Handlers : \A g \in Handlers :
               h # g => ~(pc[h] \in {"open", "flock", "locked", "closing"}
                            /\ pc[g] \in {"open", "flock", "locked", "closing"})

\* The intensity server: the first submission met an OS error, slept,
\* retried and was answered 200; only then the second one started, and it
\* now holds the lock with its row alone in its buffer, the header being in
\* the file already.
C21_Witness ==
    /\ server = "intensity"
    /\ oserrs[1] = 1 /\ attempt[1] = 1 /\ resp[1] = <<200>> /\ pc[1] = "done"
    /\ pc[2] = "closing" /\ Writable(2) /\ exc[2] = "none"
    /\ Len(buf[2]) = 1 /\ buf[2][1].kind = "row"
    /\ HeaderCount(File(2)) = 1

\* Handler h leaves its with block in this step with a pending exception
\* that is not an OSError.
LeavesWithOther(h) == pc[h] = "closing" /\ exc[h] = "other" /\ pc'[h] # "closing"

\* The submission of h ends on this attempt: the exception reaches the
\* handler's except block, the handle is closed with nothing pending, the
\* lock is free of h, and no sleep or further attempt has begun.
EndsOnThisAttempt(h) ==
    /\ pc'[h] = "except" /\ caught'[h] = WriterError
    /\ attempt'[h] = attempt[h] /\ waits'[h] = waits[h]
    /\ buf'[h] = <<>>
    /\ \A f \in Files : h \notin lock'[f]

\* The except block's only step is the 500 response with the text and the
\* argument of the exception it caught, after which the handler is finished
\* for good.
AnswersWithExceptionText(h) ==
    /\ pc[h] = "except" /\ pc'[h] # "except" =>
         /\ pc'[h] = "done" /\ resp'[h] = Append(resp[h], 500)
         /\ message'[h].text = caught[h].text /\ message'[h].arg = caught[h].arg
         /\ attempt'[h] = attempt[h] /\ waits'[h] = waits[h]
    /\ pc[h] = "done" => pc'[h] = "done" /\ attempt'[h] = attempt[h]

\* C22 (as claimed): an exception raised inside an append attempt that is
\* not an OS error is never retried: whenever the with block is left with
\* it pending, the submission ends on that attempt with the handle closed
\* and the lock released, and is answered 500 with the exception's text.
C22_NonOSExceptionNotRetried ==
    [][ \A h \in Handlers :
            /\ LeavesWithOther(h) => EndsOnThisAttempt(h)
            /\ AnswersWithExceptionText(h)
      ]_vars

\* C22 (amended): the same, unless the close of the handle fails with an
\* OSError of its own, which takes the place of the pending exception and
\* is handled by the loop like any other OS error.
C22_NonOSExceptionNotRetriedUnlessCloseFails ==
    [][ \A h \in Handlers :
            /\ LeavesWithOther(h) /\ oserrs'[h] = oserrs[h] => EndsOnThisAttempt(h)
            /\ LeavesWithOther(h) /\ oserrs'[h] # oserrs[h] =>
                 /\ pc'[h] = AfterOSError(server, attempt[h])
                 /\ buf'[h] = <<>> /\ \A f \in Files : h \notin lock'[f]
            /\ AnswersWithExceptionText(h)
      ]_vars

\* A record whose user_id cannot be encoded was answered 500 with the
\* encoder's text on its first attempt, without a sleep; the lock it held
\* is now held by the next writer of the same file.
C22_Witness ==
    \E h \in Handlers : \E g \in Handlers :
        /\ UsesFlock(server) /\ h # g /\ File(h) = File(g)
        /\ request[h].annotation["user_id"] = Surrogate
        /\ pc[h] = "done" /\ resp[h] = <<500>>
        /\ message[h] = [text |-> "codec can't encode", arg |-> ""]
        /\ attempt[h] = 0 /\ waits[h] = <<>> /\ oserrs[h] = 0
        /\ pc[g] = "locked" /\ lock[File(g)] = {g}

\* C23: the append protocol is deadlock-free and every submission
\* terminates.  Under fair scheduling of the handler threads every
\* submission that has started reaches its final outcome, and every handler
\* waiting in flock comes out of the call: it acquires the lock, or the
\* call itself fails with an OS error.
C23_EverySubmissionTerminates ==
    \A h \in Handlers :
        /\ (pc[h] \notin {"idle", "done"}) ~> (pc[h] = "done" /\ Len(resp[h]) = 1)
        /\ (pc[h] = "flock") ~> (h \in lock[File(h)] \/ (pc[h] = "closing" /\ exc[h] = "os"))

\* A handler that had to wait in flock behind the holder of the same file,
\* met an OS error and retried, has finished with 200, and so has the
\* former holder.
C23_Witness ==
    \E h \in Handlers : \E g \in Handlers :
        /\ h # g /\ UsesFlock(server) /\ Threaded(server) /\ File(h) = File(g)
        /\ pc[h] = "done" /\ pc[g] = "done"
        /\ resp[h] = <<200>> /\ resp[g] = <<200>>
        /\ oserrs[h] = 1 /\ attempt[h] = 1
        /\ Len(content[File(h)]) >= 3

\* C24 (as claimed): a submission answered with success has exactly one
\* data row in its split file, whatever OS errors its earlier attempts met.
C24_SuccessMeansExactlyOneRow ==
    \A h \in Accepted :
        resp[h] = <<200>> => RowsBy(h, File(h)) = 1

\* C24 (amended): a submission answered with success has at least one data
\* row in its split file and none in any other; it has exactly one unless
\* an attempt of it failed at close after its row had reached the file, and
\* never more than one per attempt made.
C24_SuccessMeansAtLeastOneRow ==
    \A h \in Accepted :
        resp[h] = <<200>> =>
            /\ RowsBy(h, File(h)) >= 1
            /\ RowsBy(h, File(h)) <= oserrs[h] + 1
            /\ RowsBy(h, File(h)) <= attempt[h] + 1
            /\ \A f \in Files \ {File(h)} : RowsBy(h, f) = 0

\* The close of a submission's first attempt failed after the row had been
\* flushed; the retried attempt appended the row again and was answered 200.
C24_Witness ==
    \E h \in Handlers :
        /\ UsesFlock(server) /\ resp[h] = <<200>>
        /\ oserrs[h] = 1 /\ attempt[h] = 1
        /\ RowsBy(h, File(h)) = 2

\* The lines of file f, header or row, that handler h wrote.
LinesBy(h, f) == {i \in 1..Len(content[f]) : content[f][i].by = h}

\* C25 (as claimed): a submission is all-or-nothing.  Whenever it has ended
\* with an error, no file holds a data row or a header written by it.
C25_ErrorMeansNothingWritten ==
    \A h \in Accepted :
        resp[h] = <<500>> => \A f \in Files : LinesBy(h, f) = {}

\* C25 (amended): a submission that ends with a validation error has
\* written nothing and created nothing.  One that ends with any other error
\* has written only to its own split file: data rows only in attempts whose
\* close failed with an OS error after the flush, so none when it met no OS
\* error, and besides them at most the header.
C25_ErrorMeansNoRowUnlessCloseFailed ==
    \A h \in Accepted :
        resp[h] = <<500>> =>
            /\ ~AllPresent(h) => \A f \in Files : LinesBy(h, f) = {}
            /\ \A f \in Files \ {File(h)} : LinesBy(h, f) = {}
            /\ RowsBy(h, File(h)) <= oserrs[h]
            /\ Cardinality(LinesBy(h, File(h))) <= RowsBy(h, File(h)) + 1

\* The emotion server answered 500 for a submission whose header and row
\* had reached the file when its close failed.
C25_Witness ==
    \E h \in Handlers :
        /\ server = "emotion" /\ Writable(h)
        /\ resp[h] = <<500>> /\ oserrs[h] = 1
        /\ RowsBy(h, File(h)) = 1
        /\ Cardinality(LinesBy(h, File(h))) = 2

\* C26: the header survives failed attempts.  Also after an attempt that
\* created the split file by opening it and then failed with an OS error
\* before writing anything, a split file that contains a data row has the
\* header as its first line.  Stated for the servers that handle one
\* request at a time, where no two writers can interleave.
C26_RowImpliesHeader ==
    server \in {"intensity", "emphasis"} =>
        \A f \in Files :
            LinesOf(f, "row") # {} =>
                HeaderCount(f) >= 1 /\ content[f][1].kind = "header"

=============================================================================
